---- MODULE Spec2Model ----
(***************************************************************************)
(* Flask_Carbon_Emission: the rolling history buffer and collection loop   *)
(* (app.py), the activity monitor (bpf_monitor.py) and the derived-metrics *)
(* calculator (carbon_calculator.py), as state machines.                   *)
(*                                                                         *)
(* Each subsystem has its own specification over the shared variables; a   *)
(* subsystem a specification does not exercise stays in its initial state. *)
(***************************************************************************)
EXTENDS Integers, Sequences, FiniteSets, TLC

VARIABLES
    \* ---- app.py: history buffer and collect_data thread ----
    historical_data,  \* app.py:30  the five parallel series
    cd_pc,            \* position of the collect_data thread in its cycle
    cd_k,             \* index of the key the trim loop (app.py:82) is at
    appended,         \* number of points appended so far (tags the points)
    graph_seen,       \* what the last get_graph request found in the buffer
    cd_failed,        \* history: some collection cycle has raised
    cd_recovered,     \* history: a cycle after a failed one has appended
    \* ---- carbon_calculator.py: CarbonCalculator ----
    total_carbon,     \* carbon_calculator.py:21  self.total_carbon
    calc_ret,         \* the call the calculator served last, and its result
    last_total,       \* history: total.carbon_grams of the last
                      \* get_carbon_metrics result, 0 before the first
    \* ---- bpf_monitor.py: get_process_list ----
    proc_table,       \* what psutil.process_iter(attrs) yields, in order
    proc_ret,         \* outcome of the last get_process_list call
    \* ---- environment of the monitor ----
    backend,          \* what is wrong with the kernel-probe backend, if anything
    os_net,           \* psutil.net_io_counters(): the OS's cumulative counters
    os_conns,         \* len(psutil.net_connections())
    attached,         \* the kprobes attached in the kernel
    perf_queue,       \* events submitted to the perf buffer, not yet polled
    events_made,      \* number of events the probes have submitted
    \* ---- bpf_monitor.py: BPFNetworkMonitor ----
    main_pc,          \* position of the main thread (app.py:18, 25, 56)
    sm_i,             \* index of the kprobe start_monitoring attaches next
    sm_ret,           \* what start_monitoring returned
    stops,            \* number of stop_monitoring calls made
    bpf,              \* bpf_monitor.py:105  self.bpf
    running,          \* bpf_monitor.py:20   self.running
    lock,             \* bpf_monitor.py:21   self.lock: its holder
    packet_count,     \* bpf_monitor.py:15
    bytes_sent,       \* bpf_monitor.py:16
    bytes_received,   \* bpf_monitor.py:17
    active_connections, \* bpf_monitor.py:18
    process_stats,    \* bpf_monitor.py:19   process name -> inner dict (its id)
    objs,             \* the inner dicts {'packets', 'bytes'}, by id
    ing_pc,           \* position of the event-ingestion thread
    ing_event,        \* the event handle_event is handling
    gs_pc,            \* per caller: position inside get_stats
    gs_netio,         \* per caller: the local net_io of get_stats
    gs_ret,           \* per caller: the dict its last get_stats returned
    \* ---- history variables (not program state) ----
    committed,        \* the counters as the last completed update left them
    max_ret,          \* per counter, the largest value any call has returned
    gs_hist,          \* per caller: facts recorded about its last call
    ingested,         \* the events handle_event has handled to its end:
                      \* their number, the sizes of the sends summed, the
                      \* number of receives
    committed_ps,     \* the per-process buckets as the last completed
                      \* handle_event left them
    ing_skipped       \* the ordinals of the events whose decoding raised

collVars == <<graph_seen, cd_failed, cd_recovered>>
histVars == <<historical_data, cd_pc, cd_k, appended, collVars>>
calcVars == <<total_carbon, calc_ret, last_total>>
procVars == <<proc_table, proc_ret>>
envVars == <<backend, os_net, os_conns, attached, perf_queue, events_made>>
mainVars == <<main_pc, sm_i, sm_ret, stops, bpf, running>>
countVars == <<packet_count, bytes_sent, bytes_received, process_stats, objs>>
ingVars == <<ing_pc, ing_event>>
gsVars == <<gs_pc, gs_netio, gs_ret, active_connections>>
ingGhost == <<ingested, committed_ps, ing_skipped>>
ghostVars == <<committed, max_ret, gs_hist, ingGhost>>
monVars == <<envVars, mainVars, countVars, lock, ingVars, gsVars, ghostVars>>
vars == <<histVars, calcVars, procVars, monVars>>

None == "None"

Min(a, b) == IF a < b THEN a ELSE b
Max(a, b) == IF a > b THEN a ELSE b

(***************************************************************************)
(* app.py: historical_data and collect_data                                *)
(***************************************************************************)

\* Points the collection loop may append before the model stops it.
MaxPoints == 102

\* app.py:83  `if len(historical_data[key]) > 100`
TrimThreshold == 100
\* app.py:84  `historical_data[key][-100:]`
TrimKeep == 100

\* app.py:30-36, in dict (insertion) order: the order `for key in
\* historical_data` visits them.
Keys == <<"timestamps", "cpu_usage", "network_bytes", "carbon_emissions",
          "energy_consumption">>

\* Python's s[-n:]: the last n elements, the whole list when it is shorter.
LastN(s, n) == SubSeq(s, Max(1, Len(s) - n + 1), Len(s))

TrimKeepFirst(s) == IF Len(s) > TrimThreshold THEN SubSeq(s, 1, TrimKeep) ELSE s

\* app.py:83-84
Trim(s) == IF Len(s) > TrimThreshold THEN LastN(s, TrimKeep) ELSE s

HistoryInit ==
    /\ historical_data = [k \in {Keys[i] : i \in 1..Len(Keys)} |-> <<>>]
    /\ cd_pc = "sleep"
    /\ cd_k = 1
    /\ appended = 0
    /\ graph_seen = [graph_type |-> "none", aligned |-> TRUE]
    /\ cd_failed = FALSE
    /\ cd_recovered = FALSE

\* app.py:64-67  loop test (monitoring_active is never cleared) and sleep(5)
cd_Sleep ==
    /\ cd_pc = "sleep"
    /\ appended < MaxPoints
    /\ cd_pc' = "get_stats"
    /\ UNCHANGED <<historical_data, cd_k, appended, collVars, calcVars,
                   procVars, monVars>>

\* app.py:70  monitor.get_stats() returns ...
cd_GetStats ==
    /\ cd_pc = "get_stats"
    /\ cd_pc' = "metrics"
    /\ UNCHANGED <<historical_data, cd_k, appended, collVars, calcVars,
                   procVars, monVars>>

\* app.py:71  calculator.get_carbon_metrics(net_stats) returns ...
cd_Metrics ==
    /\ cd_pc = "metrics"
    /\ cd_pc' = "app_ts"
    /\ UNCHANGED <<historical_data, cd_k, appended, collVars, calcVars,
                   procVars, monVars>>

cd_Log_Terminates ==
    /\ cd_pc = "except"
    /\ cd_pc' = "terminated"
    /\ UNCHANGED <<historical_data, cd_k, appended, collVars, calcVars,
                   procVars, monVars>>

\* app.py:65-74, 86  a statement of the try block raises before the first
\* append has taken effect (get_stats, get_carbon_metrics, or the first
\* append statement itself): control goes to `except Exception`
cd_Raise ==
    /\ cd_pc \in {"get_stats", "metrics", "app_ts"}
    /\ cd_pc' = "except"
    /\ cd_failed' = TRUE
    /\ UNCHANGED <<historical_data, cd_k, appended, graph_seen, cd_recovered,
                   calcVars, procVars, monVars>>

\* app.py:86-87, 64  the except clause prints the error and the while loop
\* goes round again
cd_Log ==
    /\ cd_pc = "except"
    /\ cd_pc' = "sleep"
    /\ UNCHANGED <<historical_data, cd_k, appended, collVars, calcVars,
                   procVars, monVars>>

\* One list.append of app.py:75-79.  The values of one cycle are opaque to
\* the buffer; a point is represented by its ordinal among the points
\* appended, the same in each of the five series.
cd_AppendTo(key, tag) ==
    historical_data' = [historical_data EXCEPT ![key] = Append(@, tag)]

\* app.py:74-75
cd_AppendTimestamp ==
    /\ cd_pc = "app_ts"
    /\ appended' = appended + 1
    /\ cd_AppendTo("timestamps", appended + 1)
    /\ cd_pc' = "app_cpu"
    /\ cd_recovered' = (cd_recovered \/ cd_failed)
    /\ UNCHANGED <<cd_k, graph_seen, cd_failed, calcVars, procVars, monVars>>

\* app.py:76
cd_AppendCpu ==
    /\ cd_pc = "app_cpu"
    /\ cd_AppendTo("cpu_usage", appended)
    /\ cd_pc' = "app_net"
    /\ UNCHANGED <<cd_k, appended, collVars, calcVars, procVars, monVars>>

\* app.py:77
cd_AppendNetwork ==
    /\ cd_pc = "app_net"
    /\ cd_AppendTo("network_bytes", appended)
    /\ cd_pc' = "app_carbon"
    /\ UNCHANGED <<cd_k, appended, collVars, calcVars, procVars, monVars>>

\* app.py:78
cd_AppendCarbon ==
    /\ cd_pc = "app_carbon"
    /\ cd_AppendTo("carbon_emissions", appended)
    /\ cd_pc' = "app_energy"
    /\ UNCHANGED <<cd_k, appended, collVars, calcVars, procVars, monVars>>

\* app.py:79
cd_AppendEnergy ==
    /\ cd_pc = "app_energy"
    /\ cd_AppendTo("energy_consumption", appended)
    /\ cd_pc' = "trim"
    /\ cd_k' = 1
    /\ UNCHANGED <<appended, collVars, calcVars, procVars, monVars>>

\* app.py:82-84  one iteration of the trim loop
cd_TrimKey ==
    /\ cd_pc = "trim"
    /\ historical_data' =
           [historical_data EXCEPT ![Keys[cd_k]] = Trim(@)]
    /\ IF cd_k = Len(Keys)
          THEN cd_pc' = "sleep" /\ cd_k' = 1
          ELSE cd_pc' = "trim" /\ cd_k' = cd_k + 1
    /\ UNCHANGED <<appended, collVars, calcVars, procVars, monVars>>

HistoryNext ==
    \/ cd_Sleep
    \/ cd_GetStats
    \/ cd_Metrics
    \/ cd_Raise
    \/ cd_Log
    \/ cd_AppendTimestamp
    \/ cd_AppendCpu
    \/ cd_AppendNetwork
    \/ cd_AppendCarbon
    \/ cd_AppendEnergy
    \/ cd_TrimKey

\* app.py:192-213  the series a graph type plots against the timestamps
GraphSeries(graph_type) ==
    CASE graph_type = "cpu" -> "cpu_usage"
      [] graph_type = "network" -> "network_bytes"
      [] graph_type = "carbon" -> "carbon_emissions"
      [] graph_type = "energy" -> "energy_consumption"

GraphTypes == {"cpu", "network", "carbon", "energy"}

\* app.py:185-213  a request handler thread serves /api/graph/<graph_type>:
\* it takes historical_data['timestamps'] and the series of the graph type,
\* with no lock, while collect_data runs.  The two are taken here in one
\* step.  Two series whose entry i comes from the same cycle for every i
\* are equal as sequences of point ordinals.
get_graph(graph_type) ==
    /\ graph_seen' =
           [graph_type |-> graph_type,
            aligned |-> historical_data["timestamps"] =
                            historical_data[GraphSeries(graph_type)]]
    /\ UNCHANGED <<historical_data, cd_pc, cd_k, appended, cd_failed,
                   cd_recovered, calcVars, procVars, monVars>>

\* collect_data and the request handlers of the running application
ServeNext ==
    \/ HistoryNext
    \/ \E graph_type \in GraphTypes : get_graph(graph_type)


(***************************************************************************)
(* carbon_calculator.py: CarbonCalculator                                  *)
(*                                                                         *)
(* Python floats are modelled as exact rationals <<numerator, denominator>>*)
(* in lowest terms with a positive denominator; rounding is not modelled.  *)
(***************************************************************************)

RECURSIVE GCD(_, _)
GCD(a, b) == IF b = 0 THEN a ELSE GCD(b, a % b)

Abs(a) == IF a < 0 THEN -a ELSE a

Norm(n, d) ==
    LET g == GCD(Abs(n), Abs(d))
        s == IF d < 0 THEN -1 ELSE 1
    IN  <<(s * n) \div g, (s * d) \div g>>

R(n) == <<n, 1>>

\* Cross-reduced first, so that the products stay small.
RMul(x, y) ==
    LET g1 == GCD(Abs(x[1]), y[2])
        g2 == GCD(Abs(y[1]), x[2])
    IN  Norm((x[1] \div g1) * (y[1] \div g2), (x[2] \div g2) * (y[2] \div g1))

RDiv(x, y) == RMul(x, Norm(y[2], y[1]))

RAdd(x, y) ==
    LET g == GCD(x[2], y[2])
    IN  Norm(x[1] * (y[2] \div g) + y[1] * (x[2] \div g), x[2] * (y[2] \div g))

\* carbon_calculator.py:13
GRID_CARBON_INTENSITY == <<1, 2>>
\* carbon_calculator.py:16
CPU_TDP == 65
\* carbon_calculator.py:17
NETWORK_POWER_PER_GB == <<3, 50>>
\* carbon_calculator.py:18
IDLE_POWER == 50

\* 1024 ** 3
GiB == 1073741824

\* ---- inputs of the calculator ----
\* (time.time() - self.start_time), in seconds
ElapsedSeconds == {0, 1800, 3600}
\* what psutil.cpu_percent(interval=1) may return
CpuPercents == {0, 50}
\* network_stats['total_bytes']
TotalBytes == {0, 1000000000, GiB}
\* psutil.virtual_memory()
Memories == {[percent |-> R(50), used |-> GiB \div 2, total |-> GiB]}

calculate_cpu_power_NoIdle(cpu_percent) ==
    RMul(R(CPU_TDP), RDiv(R(cpu_percent), R(100)))

\* carbon_calculator.py:23-28; cpu_percent is the sample psutil returns to
\* this call.
calculate_cpu_power(cpu_percent) ==
    RAdd(R(IDLE_POWER), RMul(R(CPU_TDP), RDiv(R(cpu_percent), R(100))))

\* carbon_calculator.py:30-35
calculate_network_carbon(bytes_transferred) ==
    LET gb_transferred == RDiv(R(bytes_transferred), R(GiB))
        energy_kwh == RMul(gb_transferred, NETWORK_POWER_PER_GB)
        carbon_kg == RMul(energy_kwh, GRID_CARBON_INTENSITY)
    IN  RMul(carbon_kg, R(1000))

\* carbon_calculator.py:37-41; cpu_percent is the sample its own call of
\* calculate_cpu_power draws.
calculate_total_energy(duration_hours, cpu_percent) ==
    LET cpu_power == calculate_cpu_power(cpu_percent)
    IN  RDiv(RMul(cpu_power, duration_hours), R(1000))

\* carbon_calculator.py:43-88.  The call samples the CPU three times: at
\* line 49 (c1), inside calculate_cpu_power at line 50 (c2) and inside
\* calculate_total_energy at line 51 (c3).
get_carbon_metrics(elapsed, c1, c2, c3, total_bytes, memory) ==
    LET runtime_hours == RDiv(R(elapsed), R(3600))
        cpu_percent == R(c1)
        cpu_power == calculate_cpu_power(c2)
        cpu_energy == calculate_total_energy(runtime_hours, c3)
        cpu_carbon == RMul(RMul(cpu_energy, GRID_CARBON_INTENSITY), R(1000))
        network_carbon == calculate_network_carbon(total_bytes)
        total == RAdd(cpu_carbon, network_carbon)
    IN  [cpu |-> [usage_percent |-> cpu_percent,
                  power_watts |-> cpu_power,
                  energy_kwh |-> cpu_energy,
                  carbon_grams |-> cpu_carbon],
         network |-> [total_gb |-> RDiv(R(total_bytes), R(GiB)),
                      carbon_grams |-> network_carbon],
         memory |-> [usage_percent |-> memory.percent,
                     used_gb |-> RDiv(R(memory.used), R(GiB)),
                     total_gb |-> RDiv(R(memory.total), R(GiB))],
         total |-> [carbon_grams |-> total,
                    carbon_kg |-> RDiv(total, R(1000)),
                    runtime_hours |-> runtime_hours,
                    total_energy_kwh |-> cpu_energy]]

\* carbon_calculator.py:92-111  the table built from self.total_carbon
SavingsTable(total) ==
    [reduce_cpu |->
        [name |-> "Reduce CPU Usage",
         potential_reduction_percent |-> 30,
         estimated_savings_grams |-> RMul(total, Norm(30, 100))],
     optimize_network |->
        [name |-> "Optimize Network Traffic",
         potential_reduction_percent |-> 25,
         estimated_savings_grams |-> RMul(total, Norm(25, 100))],
     power_management |->
        [name |-> "Enable Power Management",
         potential_reduction_percent |-> 40,
         estimated_savings_grams |-> RMul(total, Norm(40, 100))]]

estimate_savings_NoDefault(optimization_type, total) ==
    IF optimization_type \in DOMAIN SavingsTable(total)
        THEN SavingsTable(total)[optimization_type]
        ELSE SavingsTable(total)["power_management"]

\* carbon_calculator.py:90-113; total is self.total_carbon
estimate_savings(optimization_type, total) ==
    IF optimization_type \in DOMAIN SavingsTable(total)
        THEN SavingsTable(total)[optimization_type]
        ELSE SavingsTable(total)["reduce_cpu"]

\* the kinds callers ask for; the last is in no table
OptimizationTypes ==
    {"reduce_cpu", "optimize_network", "power_management", "turn_it_off"}

\* carbon_calculator.py:11-21
CalcInit ==
    /\ total_carbon = R(0)
    /\ calc_ret = [op |-> "none"]
    /\ last_total = R(0)

\* A call of get_carbon_metrics: carbon_calculator.py:43-88, line 64
\* storing the total.
calc_GetCarbonMetrics ==
    /\ \E e \in ElapsedSeconds, c1, c2, c3 \in CpuPercents,
          b \in TotalBytes, m \in Memories :
          LET out == get_carbon_metrics(e, c1, c2, c3, b, m)
          IN  /\ total_carbon' = out.total.carbon_grams
              /\ last_total' = out.total.carbon_grams
              /\ calc_ret' = [op |-> "get_carbon_metrics", elapsed |-> e,
                              samples |-> <<c1, c2, c3>>, total_bytes |-> b,
                              memory |-> m, out |-> out]
    /\ UNCHANGED <<histVars, procVars, monVars>>

\* A call of estimate_savings: carbon_calculator.py:90-113
calc_EstimateSavings ==
    /\ \E k \in OptimizationTypes :
          calc_ret' = [op |-> "estimate_savings", kind |-> k,
                       out |-> estimate_savings(k, total_carbon)]
    /\ UNCHANGED <<total_carbon, last_total, histVars, procVars, monVars>>

CalcNext ==
    \/ calc_GetCarbonMetrics
    \/ calc_EstimateSavings

(***************************************************************************)
(* bpf_monitor.py: BPFNetworkMonitor.get_process_list                      *)
(*                                                                         *)
(* What psutil.process_iter(['pid', 'name', 'cpu_percent',                 *)
(* 'memory_percent']) yields is a sequence of processes, each with its     *)
(* info dict.  A process whose attributes cannot be read shows in one of   *)
(* two ways: the read of proc.info raises NoSuchProcess / AccessDenied     *)
(* (the case the except clause of line 191 is written for), or, as         *)
(* process_iter(attrs) documents, the dict is there and holds None for     *)
(* each attribute that was denied.                                         *)
(***************************************************************************)

\* Processes in the table.
MaxProcs == 22

\* bpf_monitor.py:194  `[:20]`
TopN == 20

\* the CPU readings of the tables drawn: process i reads (i*mult + off) % 4
Mults == {0, 1, 3}
Offs == {0, 1}

\* An attribute of an info dict is <<v>> for the value v and <<>> for None.
NoValue == <<>>

ProcEntry(i, mult, off, bad, how) ==
    IF i = bad /\ how = "none"
        THEN [pid |-> i, name |-> "proc", cpu |-> NoValue, memory |-> NoValue,
              raises |-> FALSE]
        ELSE [pid |-> i, name |-> "proc", cpu |-> <<(i * mult + off) % 4>>,
              memory |-> <<1>>, raises |-> (i = bad /\ how = "raises")]

\* the tables: n processes, at most one of them (bad, 0 for none) unreadable
ProcTables ==
    {[i \in 1..n |-> ProcEntry(i, t[1], t[2], t[3], t[4])] :
        n \in 0..MaxProcs,
        t \in {u \in Mults \X Offs \X (0..MaxProcs) \X {"none", "raises"} :
                  u[3] = 0 => u[4] = "none"}}

\* bpf_monitor.py:182-192  the loop: one dict per process whose info can be
\* read, in the order of the table
RECURSIVE CollectProcesses(_)
CollectProcesses(table) ==
    IF table = <<>> THEN <<>>
    ELSE LET proc == Head(table)
             rest == CollectProcesses(Tail(table))
         IN  IF proc.raises
                 THEN rest
                 ELSE <<[pid |-> proc.pid, name |-> proc.name,
                         cpu |-> proc.cpu, memory |-> proc.memory]>> \o rest

\* x goes before the first element with a smaller key: a stable sort
RECURSIVE InsertDesc(_, _)
InsertDesc(x, sorted) ==
    IF sorted = <<>> THEN <<x>>
    ELSE IF Head(sorted).cpu[1] < x.cpu[1]
             THEN <<x>> \o sorted
             ELSE <<Head(sorted)>> \o InsertDesc(x, Tail(sorted))

\* bpf_monitor.py:194  sorted(processes, key=lambda x: x['cpu'],
\* reverse=True) of a list whose keys all compare: stable, largest first
RECURSIVE SortDescending(_)
SortDescending(list) ==
    IF list = <<>> THEN <<>>
    ELSE InsertDesc(list[Len(list)], SortDescending(SubSeq(list, 1, Len(list) - 1)))

\* bpf_monitor.py:179-194.  sorted() compares every key with another as
\* soon as there are two; None compares with nothing (TypeError).
get_process_list(table) ==
    LET processes == CollectProcesses(table)
    IN  IF Len(processes) >= 2 /\ \E i \in 1..Len(processes) : processes[i].cpu = NoValue
            THEN [op |-> "get_process_list", raised |-> "TypeError", list |-> <<>>]
            ELSE [op |-> "get_process_list", raised |-> None,
                  list |-> SubSeq(SortDescending(processes), 1,
                                  Min(TopN, Len(processes)))]

ProcInit ==
    /\ proc_table = <<>>
    /\ proc_ret = [op |-> "none"]

\* the process table is whatever the OS holds
ProcInitAny ==
    /\ proc_table \in ProcTables
    /\ proc_ret = [op |-> "none"]

\* A call of get_process_list: bpf_monitor.py:179-194
proc_GetProcessList ==
    /\ proc_ret' = get_process_list(proc_table)
    /\ UNCHANGED <<proc_table, histVars, calcVars, monVars>>

ProcNext == proc_GetProcessList

(***************************************************************************)
(* bpf_monitor.py: BPFNetworkMonitor, with the threads that use it         *)
(*                                                                         *)
(* The main thread imports the module, constructs the monitor and calls    *)
(* start_monitoring (app.py:18, 25, 56), and may call stop_monitoring.     *)
(* The event-ingestion thread runs _process_events.  The callers are the   *)
(* threads that call get_stats: collect_data (app.py:70) and the request   *)
(* handlers (app.py:102, 145).  A `with self.lock` block that only touches *)
(* the monitor's fields is one step of a caller; handle_event, which the   *)
(* claims look inside, is taken statement by statement.                    *)
(***************************************************************************)

\* Packets the OS counters may count.
MaxOsEvents == 2
\* Events the kernel probes may submit.
MaxEvents == 2
\* Events the perf buffer holds unread.
MaxQueue == 1
\* Calls of stop_monitoring.
MaxStops == 1

\* bpf_monitor.py:145  `self.bytes_received += 1024`
RECV_ESTIMATE == 1024

\* the threads that call get_stats
Callers == {"collector", "handler"}
\* process names (event.comm)
Comms == {"curl", "sshd"}
\* sizes, in bytes, of one send
SendSizes == {1, 2}
\* what len(psutil.net_connections()) may be
ConnCounts == {2}

\* bpf_monitor.py:113-115, in the order start_monitoring attaches them
Probes == <<"tcp_sendmsg", "tcp_recvmsg", "udp_sendmsg">>

\* bpf_monitor.py:51, 78, 93  the event_type each probe's program sets
EventType(probe) ==
    CASE probe = "tcp_sendmsg" -> 1
      [] probe = "tcp_recvmsg" -> 2
      [] probe = "udp_sendmsg" -> 3

\* What may be wrong with the backend: nothing; the bcc package is not
\* installed; BPF(text=...) raises (no privilege, no kernel support); or
\* attaching the named kprobe raises.
Backends ==
    {"ok", "no_toolchain", "no_bpf", "tcp_sendmsg", "tcp_recvmsg",
     "udp_sendmsg"}

ZeroNetIo ==
    [packets_sent |-> 0, packets_recv |-> 0, bytes_sent |-> 0, bytes_recv |-> 0]

ZeroCounters == [packet_count |-> 0, bytes_sent |-> 0, bytes_received |-> 0]

NoEvent == [event_type |-> 0, bytes |-> 0, comm |-> ""]

\* the three counters, as one value
Counters ==
    [packet_count |-> packet_count, bytes_sent |-> bytes_sent,
     bytes_received |-> bytes_received]

CountersOf(snapshot) ==
    [packet_count |-> snapshot.packet_count, bytes_sent |-> snapshot.bytes_sent,
     bytes_received |-> snapshot.bytes_received]

\* bpf_monitor.py:162-164  the counters a net_io reading is mirrored into
Mirror(net_io) ==
    [packet_count |-> net_io.packets_sent + net_io.packets_recv,
     bytes_sent |-> net_io.bytes_sent,
     bytes_received |-> net_io.bytes_recv]

\* a process_stats mapping, with each inner dict as it is now
DeepView(ps) == [c \in DOMAIN ps |-> objs[ps[c]]]

\* bpf_monitor.py:170-177  the dict get_stats builds; dict(process_stats)
\* copies the mapping, not the inner dicts it maps to
Snapshot(conns) ==
    [packet_count |-> packet_count,
     bytes_sent |-> bytes_sent,
     bytes_received |-> bytes_received,
     total_bytes |-> bytes_sent + bytes_received,
     active_connections |-> conns,
     process_stats |-> process_stats]

\* bpf_monitor.py:14-21, 105, before anything has run
MonStart ==
    /\ os_net = ZeroNetIo
    /\ attached = {}
    /\ perf_queue = <<>>
    /\ events_made = 0
    /\ main_pc = "import"
    /\ sm_i = 1
    /\ sm_ret = "none"
    /\ stops = 0
    /\ bpf = None
    /\ running = FALSE
    /\ lock = "free"
    /\ packet_count = 0
    /\ bytes_sent = 0
    /\ bytes_received = 0
    /\ active_connections = 0
    /\ process_stats = <<>>
    /\ objs = <<>>
    /\ ing_pc = "none"
    /\ ing_event = NoEvent
    /\ gs_pc = [t \in Callers |-> "idle"]
    /\ gs_netio = [t \in Callers |-> ZeroNetIo]
    /\ gs_ret = [t \in Callers |-> Snapshot(0)]
    /\ committed = ZeroCounters
    /\ max_ret = ZeroCounters
    /\ gs_hist = [t \in Callers |->
                     [done |-> FALSE, floor |-> ZeroCounters, sm0 |-> "none",
                      polled |-> FALSE, committed |-> ZeroCounters,
                      deep |-> <<>>]]
    /\ ingested = [n |-> 0, sent |-> 0, recv |-> 0]
    /\ committed_ps = <<>>
    /\ ing_skipped = {}

\* the monitor on a host where the backend is unavailable
MonInitUnavailable ==
    /\ MonStart
    /\ backend \in Backends \ {"ok"}
    /\ os_conns \in ConnCounts

\* the monitor on a host where the backend works
MonInitAvailable ==
    /\ MonStart
    /\ backend = "ok"
    /\ os_conns \in ConnCounts

\* the monitor untouched, for the specifications of the other components
MonIdle ==
    /\ MonStart
    /\ backend = "ok"
    /\ os_conns = 0

\* ------------------------------------------------------------ environment

\* The host sends or receives a packet: the OS counters only grow.  Once
\* self.bpf is set nothing reads them again (bpf_monitor.py:159), and their
\* further growth is left out.
OsTraffic ==
    /\ os_net.packets_sent + os_net.packets_recv < MaxOsEvents
    /\ bpf = None
    /\ \E n \in SendSizes :
          \/ os_net' = [os_net EXCEPT !.packets_sent = @ + 1, !.bytes_sent = @ + n]
          \/ os_net' = [os_net EXCEPT !.packets_recv = @ + 1, !.bytes_recv = @ + n]
    /\ UNCHANGED <<backend, os_conns, attached, perf_queue, events_made,
                   mainVars, countVars, lock, ingVars, gsVars, ghostVars,
                   histVars, calcVars, procVars>>

\* bpf_monitor.py:148  the perf buffer takes events once it is opened
PerfOpen == ing_pc \notin {"none", "start"}

\* bpf_monitor.py:45-103  an attached probe fires and submits its event;
\* trace_tcp_recvmsg leaves data.bytes at 0
KernelEvent ==
    /\ PerfOpen
    /\ Len(perf_queue) < MaxQueue
    /\ events_made < MaxEvents
    /\ \E i \in 1..Len(Probes), n \in SendSizes, c \in Comms :
          /\ Probes[i] \in attached
          /\ perf_queue' = Append(perf_queue,
                 [event_type |-> EventType(Probes[i]),
                  bytes |-> IF EventType(Probes[i]) = 2 THEN 0 ELSE n,
                  comm |-> c])
    /\ events_made' = events_made + 1
    /\ UNCHANGED <<backend, os_net, os_conns, attached,
                   mainVars, countVars, lock, ingVars, gsVars, ghostVars,
                   histVars, calcVars, procVars>>

\* ------------------------------------------------------------ main thread

\* app.py:18 -> bpf_monitor.py:7  `from bcc import BPF`: ImportError, which
\* nothing catches, when the package is missing
main_Import ==
    /\ main_pc = "import"
    /\ main_pc' = IF backend = "no_toolchain" THEN "crashed" ELSE "init"
    /\ UNCHANGED <<envVars, sm_i, sm_ret, stops, bpf, running, countVars, lock,
                   ingVars, gsVars, ghostVars, histVars, calcVars, procVars>>

\* app.py:25 -> bpf_monitor.py:14-21, 105
main_Create ==
    /\ main_pc = "init"
    /\ main_pc' = "ready"
    /\ UNCHANGED <<envVars, sm_i, sm_ret, stops, bpf, running, countVars, lock,
                   ingVars, gsVars, ghostVars, histVars, calcVars, procVars>>

\* bpf_monitor.py:109-110, 126-129  self.bpf = BPF(text=...), or the
\* constructor raises and start_monitoring returns False
sm_Construct ==
    /\ main_pc = "ready"
    /\ IF backend = "no_bpf"
          THEN /\ sm_ret' = "false"
               /\ main_pc' = "started"
               /\ UNCHANGED <<bpf, sm_i>>
          ELSE /\ bpf' = "BPF"
               /\ sm_i' = 1
               /\ main_pc' = "attach"
               /\ UNCHANGED sm_ret
    /\ UNCHANGED <<envVars, stops, running, countVars, lock,
                   ingVars, gsVars, ghostVars, histVars, calcVars, procVars>>

\* bpf_monitor.py:113-115, 126-129  one attach_kprobe, or it raises and
\* start_monitoring returns False
sm_Attach ==
    /\ main_pc = "attach"
    /\ IF backend = Probes[sm_i]
          THEN /\ sm_ret' = "false"
               /\ main_pc' = "started"
               /\ UNCHANGED <<attached, sm_i>>
          ELSE /\ attached' = attached \cup {Probes[sm_i]}
               /\ IF sm_i = Len(Probes)
                     THEN main_pc' = "launch" /\ sm_i' = sm_i
                     ELSE main_pc' = "attach" /\ sm_i' = sm_i + 1
               /\ UNCHANGED sm_ret
    /\ UNCHANGED <<backend, os_net, os_conns, perf_queue, events_made,
                   stops, bpf, running, countVars, lock,
                   ingVars, gsVars, ghostVars, histVars, calcVars, procVars>>

\* bpf_monitor.py:117-124  running = True, the thread starts, return True
sm_Launch ==
    /\ main_pc = "launch"
    /\ running' = TRUE
    /\ ing_pc' = "start"
    /\ sm_ret' = "true"
    /\ main_pc' = "started"
    /\ UNCHANGED <<envVars, sm_i, stops, bpf, countVars, lock, ing_event,
                   gsVars, ghostVars, histVars, calcVars, procVars>>

\* bpf_monitor.py:196-201  running = False; with a bpf object, a message
\* and a sleep
stop_monitoring ==
    /\ main_pc = "started"
    /\ stops < MaxStops
    /\ running' = FALSE
    /\ stops' = stops + 1
    /\ UNCHANGED <<envVars, main_pc, sm_i, sm_ret, bpf, countVars, lock,
                   ingVars, gsVars, ghostVars, histVars, calcVars, procVars>>

\* ------------------------------------------------- event-ingestion thread

\* bpf_monitor.py:147-148  `if self.bpf:` and open_perf_buffer
ing_Start ==
    /\ ing_pc = "start"
    /\ ing_pc' = IF bpf # None THEN "loop" ELSE "exit"
    /\ UNCHANGED <<envVars, mainVars, countVars, lock, ing_event, gsVars,
                   ghostVars, histVars, calcVars, procVars>>

\* bpf_monitor.py:150  `while self.running:`
ing_Loop ==
    /\ ing_pc = "loop"
    /\ ing_pc' = IF running THEN "poll" ELSE "exit"
    /\ UNCHANGED <<envVars, mainVars, countVars, lock, ing_event, gsVars,
                   ghostVars, histVars, calcVars, procVars>>

\* bpf_monitor.py:152, 134  perf_buffer_poll hands the next event to
\* handle_event, which decodes it
ing_PollEvent ==
    /\ ing_pc = "poll"
    /\ perf_queue # <<>>
    /\ ing_event' = Head(perf_queue)
    /\ perf_queue' = Tail(perf_queue)
    /\ ing_pc' = "ev_lock"
    /\ UNCHANGED <<backend, os_net, os_conns, attached, events_made,
                   mainVars, countVars, lock, gsVars, ghostVars,
                   histVars, calcVars, procVars>>

\* bpf_monitor.py:152  perf_buffer_poll returns (its timeout, or its events
\* handled)
ing_PollReturn ==
    /\ ing_pc = "poll"
    /\ ing_pc' = "loop"
    /\ UNCHANGED <<envVars, mainVars, countVars, lock, ing_event, gsVars,
                   ghostVars, histVars, calcVars, procVars>>

ing_DecodeFail_Propagates ==
    /\ ing_pc = "ev_lock"
    /\ ing_pc' = "exit"
    /\ ing_event' = NoEvent
    /\ ing_skipped' = ing_skipped \cup {events_made - Len(perf_queue)}
    /\ UNCHANGED <<envVars, mainVars, countVars, lock, gsVars, committed,
                   max_ret, gs_hist, ingested, committed_ps,
                   histVars, calcVars, procVars>>

\* bpf_monitor.py:134, 152  decoding the event raises: the exception leaves
\* handle_event before the lock is taken and nothing is counted.
\* handle_event runs as the callback perf_buffer_poll calls for each
\* event; an exception of the callback is reported there and not passed
\* on to line 152, and the poll goes on with the next event.
ing_DecodeFail ==
    /\ ing_pc = "ev_lock"
    /\ ing_pc' = "poll"
    /\ ing_event' = NoEvent
    /\ ing_skipped' = ing_skipped \cup {events_made - Len(perf_queue)}
    /\ UNCHANGED <<envVars, mainVars, countVars, lock, gsVars, committed,
                   max_ret, gs_hist, ingested, committed_ps,
                   histVars, calcVars, procVars>>

\* bpf_monitor.py:136  `with self.lock:` entered
ing_Lock ==
    /\ ing_pc = "ev_lock"
    /\ lock = "free"
    /\ lock' = "ingest"
    /\ ing_pc' = "ev_pkt"
    /\ UNCHANGED <<envVars, mainVars, countVars, ing_event, gsVars,
                   ghostVars, histVars, calcVars, procVars>>

\* bpf_monitor.py:137, 139, 144  packet_count += 1, then the branch on
\* event_type
ing_Packet ==
    /\ ing_pc = "ev_pkt"
    /\ packet_count' = packet_count + 1
    /\ ing_pc' = CASE ing_event.event_type \in {1, 3} -> "ev_sent"
                   [] ing_event.event_type = 2 -> "ev_recv"
                   [] OTHER -> "ev_unlock"
    /\ UNCHANGED <<envVars, mainVars, bytes_sent, bytes_received,
                   process_stats, objs, lock, ing_event, gsVars,
                   ghostVars, histVars, calcVars, procVars>>

\* bpf_monitor.py:140  bytes_sent += event.bytes
ing_Sent ==
    /\ ing_pc = "ev_sent"
    /\ bytes_sent' = bytes_sent + ing_event.bytes
    /\ ing_pc' = "ev_ps_packets"
    /\ UNCHANGED <<envVars, mainVars, packet_count, bytes_received,
                   process_stats, objs, lock, ing_event, gsVars,
                   ghostVars, histVars, calcVars, procVars>>

\* bpf_monitor.py:19, 141-142  process_stats[comm]['packets'] += 1; the
\* defaultdict makes the inner dict on the first use of comm, and the +=
\* changes that dict in place
ing_ProcessPackets ==
    /\ ing_pc = "ev_ps_packets"
    /\ LET comm == ing_event.comm
       IN  IF comm \in DOMAIN process_stats
               THEN /\ objs' = [objs EXCEPT ![process_stats[comm]].packets = @ + 1]
                    /\ UNCHANGED process_stats
               ELSE /\ objs' = Append(objs, [packets |-> 1, bytes |-> 0])
                    /\ process_stats' =
                           [c \in DOMAIN process_stats \cup {comm} |->
                               IF c = comm THEN Len(objs) + 1
                                           ELSE process_stats[c]]
    /\ ing_pc' = "ev_ps_bytes"
    /\ UNCHANGED <<envVars, mainVars, packet_count, bytes_sent,
                   bytes_received, lock, ing_event, gsVars,
                   ghostVars, histVars, calcVars, procVars>>

\* bpf_monitor.py:143  process_stats[comm]['bytes'] += event.bytes
ing_ProcessBytes ==
    /\ ing_pc = "ev_ps_bytes"
    /\ objs' = [objs EXCEPT ![process_stats[ing_event.comm]].bytes =
                                @ + ing_event.bytes]
    /\ ing_pc' = "ev_unlock"
    /\ UNCHANGED <<envVars, mainVars, packet_count, bytes_sent,
                   bytes_received, process_stats, lock, ing_event, gsVars,
                   ghostVars, histVars, calcVars, procVars>>

ing_Received_ReportedSize ==
    /\ ing_pc = "ev_recv"
    /\ bytes_received' = bytes_received + ing_event.bytes
    /\ ing_pc' = "ev_unlock"
    /\ UNCHANGED <<envVars, mainVars, packet_count, bytes_sent,
                   process_stats, objs, lock, ing_event, gsVars,
                   ghostVars, histVars, calcVars, procVars>>

\* bpf_monitor.py:144-145  bytes_received += 1024
ing_Received ==
    /\ ing_pc = "ev_recv"
    /\ bytes_received' = bytes_received + RECV_ESTIMATE
    /\ ing_pc' = "ev_unlock"
    /\ UNCHANGED <<envVars, mainVars, packet_count, bytes_sent,
                   process_stats, objs, lock, ing_event, gsVars,
                   ghostVars, histVars, calcVars, procVars>>

\* bpf_monitor.py:136  the with block is left; handle_event returns into
\* perf_buffer_poll
ing_Unlock ==
    /\ ing_pc = "ev_unlock"
    /\ lock' = "free"
    /\ ing_pc' = "poll"
    /\ ing_event' = NoEvent
    /\ committed' = Counters
    /\ committed_ps' = DeepView(process_stats)
    /\ ingested' =
           [n |-> ingested.n + 1,
            sent |-> ingested.sent +
                     (IF ing_event.event_type \in {1, 3}
                         THEN ing_event.bytes ELSE 0),
            recv |-> ingested.recv +
                     (IF ing_event.event_type = 2 THEN 1 ELSE 0)]
    /\ UNCHANGED <<envVars, mainVars, countVars, gsVars, max_ret, gs_hist,
                   ing_skipped, histVars, calcVars, procVars>>

\* ------------------------------------------------------------- get_stats

gs_ReadGuard_NoLock == TRUE

\* bpf_monitor.py:169  `with self.lock:` can be entered
gs_ReadGuard == lock = "free"

\* bpf_monitor.py:160  psutil.net_io_counters()
gs_NetIoReading(t) == os_net

\* bpf_monitor.py:156-159  a call begins and tests `not self.bpf`.  The
\* threads that call get_stats exist once start_monitoring has returned
\* (app.py:56, 90-91, 277).
gs_Begin(t) ==
    /\ main_pc = "started"
    /\ gs_pc[t] = "idle"
    /\ gs_pc' = [gs_pc EXCEPT ![t] = IF bpf = None THEN "netio" ELSE "read"]
    /\ gs_hist' = [gs_hist EXCEPT ![t].floor = max_ret, ![t].sm0 = sm_ret,
                                  ![t].polled = FALSE]
    /\ UNCHANGED <<envVars, mainVars, countVars, lock, ingVars, gs_netio,
                   gs_ret, active_connections, committed, max_ret, ingGhost,
                   histVars, calcVars, procVars>>

\* bpf_monitor.py:156-159  a request handler calls get_stats on the
\* monitor created at import (app.py:25, 102) before start_monitoring has
\* been called: self.bpf is still None.  The collector thread does not
\* exist yet (app.py:90-91).
gs_BeginEarly(t) ==
    /\ main_pc = "ready"
    /\ t = "handler"
    /\ gs_pc[t] = "idle"
    /\ gs_pc' = [gs_pc EXCEPT ![t] = IF bpf = None THEN "netio" ELSE "read"]
    /\ gs_hist' = [gs_hist EXCEPT ![t].floor = max_ret, ![t].sm0 = sm_ret,
                                  ![t].polled = FALSE]
    /\ UNCHANGED <<envVars, mainVars, countVars, lock, ingVars, gs_netio,
                   gs_ret, active_connections, committed, max_ret, ingGhost,
                   histVars, calcVars, procVars>>

\* bpf_monitor.py:160  net_io = psutil.net_io_counters()
gs_ReadNetIo(t) ==
    /\ gs_pc[t] = "netio"
    /\ gs_netio' = [gs_netio EXCEPT ![t] = gs_NetIoReading(t)]
    /\ gs_pc' = [gs_pc EXCEPT ![t] = "write"]
    /\ gs_hist' = [gs_hist EXCEPT ![t].polled = TRUE]
    /\ UNCHANGED <<envVars, mainVars, countVars, lock, ingVars,
                   gs_ret, active_connections, committed, max_ret, ingGhost,
                   histVars, calcVars, procVars>>

\* bpf_monitor.py:161-164  under the lock, the reading is mirrored into the
\* counters
gs_Write(t) ==
    /\ gs_pc[t] = "write"
    /\ lock = "free"
    /\ packet_count' = Mirror(gs_netio[t]).packet_count
    /\ bytes_sent' = Mirror(gs_netio[t]).bytes_sent
    /\ bytes_received' = Mirror(gs_netio[t]).bytes_received
    /\ committed' = Mirror(gs_netio[t])
    /\ gs_pc' = [gs_pc EXCEPT ![t] = "read"]
    /\ UNCHANGED <<envVars, mainVars, process_stats, objs, lock, ingVars,
                   gs_netio, gs_ret, active_connections, max_ret, gs_hist,
                   ingGhost, histVars, calcVars, procVars>>

\* bpf_monitor.py:167-177  active_connections is set from the OS, then the
\* dict is built under the lock and returned
gs_Read(t) ==
    /\ gs_pc[t] = "read"
    /\ gs_ReadGuard
    /\ active_connections' = os_conns
    /\ gs_ret' = [gs_ret EXCEPT ![t] = Snapshot(os_conns)]
    /\ gs_pc' = [gs_pc EXCEPT ![t] = "idle"]
    /\ max_ret' = [packet_count |-> Max(max_ret.packet_count, packet_count),
                   bytes_sent |-> Max(max_ret.bytes_sent, bytes_sent),
                   bytes_received |-> Max(max_ret.bytes_received, bytes_received)]
    /\ gs_hist' = [gs_hist EXCEPT ![t].done = TRUE,
                                  ![t].committed = committed,
                                  ![t].deep = DeepView(process_stats)]
    /\ UNCHANGED <<envVars, mainVars, countVars, lock, ingVars, gs_netio,
                   committed, ingGhost, histVars, calcVars, procVars>>

\* the steps on a host where the backend is unavailable: polling mode
PollNext ==
    \/ OsTraffic
    \/ main_Import
    \/ main_Create
    \/ sm_Construct
    \/ sm_Attach
    \/ stop_monitoring
    \/ \E t \in Callers : gs_Begin(t)
    \/ \E t \in Callers : gs_ReadNetIo(t)
    \/ \E t \in Callers : gs_Write(t)
    \/ \E t \in Callers : gs_Read(t)

\* the steps on a host where the backend works: kernel-probe mode
BpfNext ==
    \/ KernelEvent
    \/ main_Import
    \/ main_Create
    \/ sm_Construct
    \/ sm_Attach
    \/ sm_Launch
    \/ stop_monitoring
    \/ ing_Start
    \/ ing_Loop
    \/ ing_PollEvent
    \/ ing_PollReturn
    \/ ing_Lock
    \/ ing_Packet
    \/ ing_Sent
    \/ ing_ProcessPackets
    \/ ing_ProcessBytes
    \/ ing_Received
    \/ ing_Unlock
    \/ \E t \in Callers : gs_Begin(t)
    \/ \E t \in Callers : gs_Read(t)

\* kernel-probe mode with one request handler, whose get_stats calls may
\* come before start_monitoring
EarlyNext ==
    \/ OsTraffic
    \/ KernelEvent
    \/ main_Import
    \/ main_Create
    \/ sm_Construct
    \/ sm_Attach
    \/ sm_Launch
    \/ ing_Start
    \/ ing_Loop
    \/ ing_PollEvent
    \/ ing_PollReturn
    \/ ing_Lock
    \/ ing_Packet
    \/ ing_Sent
    \/ ing_ProcessPackets
    \/ ing_ProcessBytes
    \/ ing_Received
    \/ ing_Unlock
    \/ gs_BeginEarly("handler")
    \/ gs_Begin("handler")
    \/ gs_ReadNetIo("handler")
    \/ gs_Write("handler")
    \/ gs_Read("handler")

\* the main thread, the probes and the event-ingestion thread alone, with
\* events whose decoding may fail
IngestNext ==
    \/ KernelEvent
    \/ main_Import
    \/ main_Create
    \/ sm_Construct
    \/ sm_Attach
    \/ sm_Launch
    \/ stop_monitoring
    \/ ing_Start
    \/ ing_Loop
    \/ ing_PollEvent
    \/ ing_PollReturn
    \/ ing_DecodeFail
    \/ ing_Lock
    \/ ing_Packet
    \/ ing_Sent
    \/ ing_ProcessPackets
    \/ ing_ProcessBytes
    \/ ing_Received
    \/ ing_Unlock

(***************************************************************************)
(* Specifications                                                          *)
(***************************************************************************)

Init ==
    /\ HistoryInit
    /\ CalcInit
    /\ ProcInit
    /\ MonIdle

SpecHistory == Init /\ [][HistoryNext]_vars

\* collect_data with request handlers reading the buffer
SpecServe == Init /\ [][ServeNext]_vars

\* collect_data as a thread that is scheduled again and again
\* (app.py:90-91), in an environment where get_stats, get_carbon_metrics
\* and the appends do not fail for ever
SpecHistoryLive ==
    /\ Init
    /\ [][HistoryNext]_vars
    /\ WF_vars(HistoryNext)
    /\ SF_vars(cd_GetStats)
    /\ SF_vars(cd_Metrics)
    /\ SF_vars(cd_AppendTimestamp)

SpecCalc == Init /\ [][CalcNext]_vars

InitProc ==
    /\ HistoryInit
    /\ CalcInit
    /\ ProcInitAny
    /\ MonIdle

SpecProc == InitProc /\ [][ProcNext]_vars

InitPoll ==
    /\ HistoryInit
    /\ CalcInit
    /\ ProcInit
    /\ MonInitUnavailable

SpecPoll == InitPoll /\ [][PollNext]_vars

InitBpf ==
    /\ HistoryInit
    /\ CalcInit
    /\ ProcInit
    /\ MonInitAvailable

SpecBpf == InitBpf /\ [][BpfNext]_vars

SpecIngest == InitBpf /\ [][IngestNext]_vars

SpecEarly == InitBpf /\ [][EarlyNext]_vars

(***************************************************************************)
(* Claims                                                                  *)
(***************************************************************************)

\* The points a series must hold once n points were appended: the last
\* min(n, 100) of 1..n, oldest first.
LastPoints(n) == [i \in 1..Min(n, 100) |-> n - Min(n, 100) + i]

\* C1: after any number of completed collection cycles every history series
\* holds at most 100 entries, and they are the last 100 points appended (all
\* of them while fewer were appended), in arrival order.
C1_HistoryBounded ==
    cd_pc = "sleep" =>
        \A i \in 1..Len(Keys) :
            /\ Len(historical_data[Keys[i]]) <= 100
            /\ historical_data[Keys[i]] = LastPoints(appended)

\* More than 100 points were appended and the cycle that appended the last
\* one has completed, trim included.
C1_Witness ==
    /\ cd_pc = "sleep"
    /\ appended > 100
    /\ Len(historical_data["timestamps"]) = 100
    /\ historical_data["energy_consumption"][1] = appended - 99

C8_Percent(kind) ==
    CASE kind = "optimize_network" -> 25
      [] kind = "power_management" -> 40
      [] OTHER -> 30

\* C8: estimate_savings returns 30 / 25 / 40 percent for reduce_cpu /
\* optimize_network / power_management, the estimate of reduce_cpu for any
\* other kind, with savings that percentage of the total the last
\* get_carbon_metrics stored (0 before any call), and leaves that total as
\* it was.
C8_EstimateSavings ==
    /\ total_carbon = last_total
    /\ calc_ret.op = "estimate_savings" =>
          /\ calc_ret.out.potential_reduction_percent =
                 C8_Percent(calc_ret.kind)
          /\ calc_ret.out.estimated_savings_grams =
                 RMul(last_total, Norm(C8_Percent(calc_ret.kind), 100))
          /\ calc_ret.kind \notin
                 {"reduce_cpu", "optimize_network", "power_management"} =>
                 calc_ret.out.name = "Reduce CPU Usage"

\* estimate_savings has served a kind outside the table after
\* get_carbon_metrics stored a total other than 0.
C8_Witness ==
    /\ calc_ret.op = "estimate_savings"
    /\ calc_ret.kind = "turn_it_off"
    /\ last_total # R(0)
    /\ calc_ret.out.estimated_savings_grams # R(0)

\* the processes of the table whose CPU usage can be read
Readable(table) ==
    {i \in 1..Len(table) : ~table[i].raises /\ table[i].cpu # NoValue}

\* C9: for every process table, also one with a process whose attributes
\* cannot be read, get_process_list returns without error at most 20
\* entries in non-increasing order of CPU usage, the readable processes of
\* highest CPU usage, and no unreadable one.
C9_ProcessList ==
    proc_ret.op = "get_process_list" =>
        LET list == proc_ret.list
            pids == {list[i].pid : i \in 1..Len(list)}
        IN  /\ proc_ret.raised = None
            /\ Len(list) = Min(TopN, Cardinality(Readable(proc_table)))
            /\ pids \subseteq Readable(proc_table)
            /\ \A i \in 1..Len(list) - 1 : list[i].cpu[1] >= list[i + 1].cpu[1]
            /\ \A i \in Readable(proc_table) \ pids :
                   \A j \in 1..Len(list) : proc_table[i].cpu[1] <= list[j].cpu[1]

\* C9, for the tables in which every process can be read.
C9_ProcessListAllReadable ==
    (/\ proc_ret.op = "get_process_list"
     /\ Cardinality(Readable(proc_table)) = Len(proc_table)) =>
        C9_ProcessList

\* a >= b in each of the three counters
CountersAtLeast(a, b) ==
    /\ a.packet_count >= b.packet_count
    /\ a.bytes_sent >= b.bytes_sent
    /\ a.bytes_received >= b.bytes_received

\* C2: of two get_stats calls, the first returned before the second began,
\* the second returns packet_count, bytes_sent and bytes_received each at
\* least those of the first (gs_hist[t].floor is the largest value any call
\* had returned when t's call began).
C2_Monotonic ==
    \A t \in Callers :
        (gs_pc[t] = "idle" /\ gs_hist[t].done) =>
            CountersAtLeast(CountersOf(gs_ret[t]), gs_hist[t].floor)

\* C3: when start_monitoring fails to bring the backend up it returns
\* False, and every get_stats call after that takes a reading of the OS
\* counters and returns that reading.
C3_FallbackToPolling ==
    /\ (main_pc = "started" /\ backend # "ok") => sm_ret = "false"
    /\ \A t \in Callers :
          (gs_pc[t] = "idle" /\ gs_hist[t].done /\ gs_hist[t].sm0 = "false") =>
              /\ gs_hist[t].polled
              /\ CountersOf(gs_ret[t]) = Mirror(gs_netio[t])

\* C4: whatever makes the backend unavailable, nothing raises to the
\* caller: the monitor is created and start_monitoring returns False.
C4_NeverCrashes ==
    /\ main_pc # "crashed"
    /\ (main_pc = "started" /\ backend # "ok") => sm_ret = "false"

\* C5: every dict get_stats returns has total_bytes = bytes_sent +
\* bytes_received, and its three counters are those a completed update left
\* (gs_hist[t].committed: the counters when the last handle_event finished),
\* never those in the middle of one event's update.
C5_ConsistentSnapshots ==
    \A t \in Callers :
        gs_hist[t].done =>
            /\ gs_ret[t].total_bytes =
                   gs_ret[t].bytes_sent + gs_ret[t].bytes_received
            /\ CountersOf(gs_ret[t]) = gs_hist[t].committed

\* A caller has a dict that counts an event, and while handle_event is in
\* the middle of the next event, holding the lock, the other caller is
\* about to read.
C5_Witness ==
    \E t, u \in Callers :
        /\ t # u
        /\ gs_hist[t].done
        /\ gs_ret[t].packet_count >= 1
        /\ gs_pc[u] = "read"
        /\ lock = "ingest"
        /\ ing_pc \in {"ev_sent", "ev_recv"}
        /\ Counters # committed

\* C6: a dict get_stats has returned does not change afterwards: its
\* per-process entries read now as they read when it was returned
\* (gs_hist[t].deep).
C6_SnapshotImmutable ==
    \A t \in Callers :
        gs_hist[t].done =>
            DeepView(gs_ret[t].process_stats) = gs_hist[t].deep

\* C10: once stop_monitoring was called with the backend attached and the
\* ingestion thread has seen the flag and ended, the probes are detached.
C10_StopDetaches ==
    (stops >= 1 /\ sm_ret = "true" /\ ing_pc = "exit") => attached = {}

\* C15: in every get_carbon_metrics result, also when the CPU utilization
\* differs between the samples the call takes, cpu.power_watts equals
\* 50 + 65 * cpu.usage_percent / 100 and cpu.energy_kwh equals
\* cpu.power_watts * total.runtime_hours / 1000.
C15_SingleCpuSample ==
    calc_ret.op = "get_carbon_metrics" =>
        LET out == calc_ret.out
        IN  /\ out.cpu.power_watts =
                   RAdd(R(IDLE_POWER),
                        RMul(R(CPU_TDP), RDiv(out.cpu.usage_percent, R(100))))
            /\ out.cpu.energy_kwh =
                   RDiv(RMul(out.cpu.power_watts, out.total.runtime_hours),
                        R(1000))

\* C11: a failing collection cycle never ends the scheduler: when
\* get_stats, get_carbon_metrics or the append raises, the loop goes on
\* to its next cycle, and a later cycle appends a point to the history.
C11_SchedulerSurvives ==
    \A n \in 0..(MaxPoints - 1) :
        (cd_pc = "except" /\ appended = n) ~> (appended > n)

\* A cycle has raised and a later cycle has appended its point and
\* completed.
C11_Witness ==
    /\ cd_failed
    /\ cd_recovered
    /\ cd_pc = "sleep"
    /\ appended > 0

\* C12: whatever a request handler finds in the buffer while collect_data
\* runs, the series have the same length and entry i of each belongs to
\* the same collection cycle.
C12_SeriesAligned == graph_seen.aligned

\* the buckets ps after one more packet of n bytes of process comm
BucketPlus(ps, comm, n) ==
    [c \in DOMAIN ps \cup {comm} |->
        IF c = comm
            THEN IF comm \in DOMAIN ps
                    THEN [packets |-> ps[comm].packets + 1,
                          bytes |-> ps[comm].bytes + n]
                    ELSE [packets |-> 1, bytes |-> n]
            ELSE ps[c]]

\* C13: each event handled adds 1 to packet_count; a TCP or UDP send adds
\* its size to bytes_sent and one packet and its size to the bucket of its
\* process, and leaves bytes_received; a TCP receive adds 1024 to
\* bytes_received and leaves bytes_sent and every bucket; an event of any
\* other kind changes packet_count only.
C13_EventEffect ==
    ing_pc = "ev_unlock" =>
        LET e == ing_event
            send == e.event_type \in {1, 3}
            recv == e.event_type = 2
        IN  /\ packet_count = committed.packet_count + 1
            /\ bytes_sent =
                   committed.bytes_sent + (IF send THEN e.bytes ELSE 0)
            /\ bytes_received =
                   committed.bytes_received + (IF recv THEN 1024 ELSE 0)
            /\ DeepView(process_stats) =
                   IF send THEN BucketPlus(committed_ps, e.comm, e.bytes)
                           ELSE committed_ps

\* A UDP send of a process that has a bucket already has been handled, up
\* to the release of the lock.
C13_Witness ==
    /\ ing_pc = "ev_unlock"
    /\ ing_event.event_type = 3
    /\ ing_event.comm \in DOMAIN committed_ps
    /\ committed.packet_count = 1

C14_CumulativeSinceStart ==
    [][\A t \in Callers :
          (/\ gs_pc[t] = "read"
           /\ gs_pc'[t] = "idle"
           /\ gs_hist[t].sm0 = "true") =>
              CountersOf(gs_ret'[t]) =
                  [packet_count |-> ingested.n,
                   bytes_sent |-> ingested.sent,
                   bytes_received |-> 1024 * ingested.recv]]_vars

====
